---- MODULE Spec2Model ----
(***************************************************************************)
(* Model of the stock-data plugin (src/index.ts): the response cache that  *)
(* wraps the Finnhub client, and the tool / route handlers built on it.    *)
(*                                                                         *)
(* Spec       the caching wrapper finnhub() called directly, by callers    *)
(*            that overlap in time, with the clock and deactivate().       *)
(***************************************************************************)
EXTENDS Integers, Sequences, FiniteSets, TLC

VARIABLES
  cache,       \* the module-level Map: cache key -> [data, expiry]
  now,         \* Date.now(), in milliseconds
  fetchCount,  \* number of requests handed to fetch() so far
  call,        \* Spec: the position of each caller of finnhub()
  last,        \* Spec: the promise of finnhub() that settled most recently
  quiet,       \* history: no call has started since the call that settled last
               \* started, and none was in flight when it started
  deactivated, \* history: deactivate() has run and no call has started since
  setting,     \* the host's value of the setting "finnhubApiKey" ("" when not set)
  h            \* the tool or route handler being run: its position, its
               \* arguments and locals, its pending fetches and its result

vars == <<cache, now, fetchCount, call, last, quiet, deactivated, setting, h>>

(* What the callers of finnhub() own, and what the handlers own *)
callVars == <<call, last, quiet, deactivated>>
toolVars == <<setting, h>>

----------------------------------------------------------------------------
(* Bounds of the model *)

MaxTime == 15001
MaxFetches == 2
NumCallers == 2
MaxToolRequests == 2
MaxBatchRequests == 3
MaxArgRequests == 2
MaxSymbols == 2
NewsLen == 21

(* Program constants *)

CACHE_TTL_MS == 15000

BASE == "https://finnhub.io/api/v1"

----------------------------------------------------------------------------
(* JSON values.  One record shape for every payload, so that any two values *)
(* can be compared: t is the JSON type, n the number (or 0/1 for a          *)
(* boolean), s the string.  For an object, s names what it is, q holds the  *)
(* fields c, o, d, dp, h, l, pc of a quote, len the number of elements of the array   *)
(* the handlers read from it, list the strings of an array of strings, and  *)
(* wf tells whether the other fields the handlers format are there.         *)

NoQuote == [c |-> 0, o |-> 0, d |-> 0, dp |-> 0, hi |-> 0, lo |-> 0, pc |-> 0]

J(t, n, s) ==
  [t |-> t, n |-> n, s |-> s, q |-> NoQuote, len |-> 0, list |-> <<>>, wf |-> TRUE]

JNull     == J("null", 0, "")
JFalse    == J("boolean", 0, "")
JZero     == J("number", 0, "")
JEmptyStr == J("string", 0, "")
JObjA     == J("object", 150, "A")
JObjB     == J("object", 151, "B")

(* What res.json() can resolve to *)
Payloads == {JNull, JObjA, JObjB}

(* JavaScript truthiness, as tested by `if (cached)` *)
Truthy(v) ==
  CASE v.t = "null"    -> FALSE
    [] v.t = "boolean" -> v.n # 0
    [] v.t = "number"  -> v.n # 0
    [] v.t = "string"  -> v.s # ""
    [] OTHER           -> TRUE

----------------------------------------------------------------------------
(* Parameter mappings: a Record<string,string> is the sequence of its       *)
(* name/value pairs in insertion order, which is the order JSON.stringify   *)
(* and Object.entries enumerate them in.                                    *)

PSym    == << [k |-> "symbol", v |-> "AAPL"] >>
PSymGrp == << [k |-> "symbol", v |-> "AAPL"], [k |-> "grouping", v |-> "industry"] >>
PGrpSym == << [k |-> "grouping", v |-> "industry"], [k |-> "symbol", v |-> "AAPL"] >>

ApiKeys   == {"K1", "K2"}

(* The mapping a parameter object denotes, whatever its insertion order *)
Mapping(params) == { <<params[i].k, params[i].v>> : i \in 1..Len(params) }

Quote(s) == "\"" \o s \o "\""

RECURSIVE JoinPairs(_, _)
JoinPairs(params, i) ==
  IF i > Len(params) THEN ""
  ELSE (IF i > 1 THEN "," ELSE "")
       \o Quote(params[i].k) \o ":" \o Quote(params[i].v)
       \o JoinPairs(params, i + 1)

(* JSON.stringify of a Record<string,string> *)
JSONstringify(params) == "{" \o JoinPairs(params, 1) \o "}"

cacheKey(path, params) == path \o "?" \o JSONstringify(params)

RECURSIVE SetParams(_, _)
SetParams(params, i) ==
  IF i > Len(params) THEN ""
  ELSE "&" \o params[i].k \o "=" \o params[i].v \o SetParams(params, i + 1)

(* The URL handed to fetch() *)
requestUrl(path, apiKey, params) ==
  BASE \o path \o "?token=" \o apiKey \o SetParams(params, 1)

----------------------------------------------------------------------------
(* Numbers and strings as the handlers format them *)

Digit(d) ==
  CASE d = 0 -> "0" [] d = 1 -> "1" [] d = 2 -> "2" [] d = 3 -> "3" [] d = 4 -> "4"
    [] d = 5 -> "5" [] d = 6 -> "6" [] d = 7 -> "7" [] d = 8 -> "8" [] d = 9 -> "9"

RECURSIVE NatToStr(_)
NatToStr(n) == IF n < 10 THEN Digit(n) ELSE NatToStr(n \div 10) \o Digit(n % 10)

(* String(n) of an integer *)
String(n) == IF n < 0 THEN "-" \o NatToStr(-n) ELSE NatToStr(n)

RECURSIVE Grouped(_)
Grouped(n) ==
  IF n < 1000 THEN NatToStr(n)
  ELSE Grouped(n \div 1000) \o ","
       \o Digit((n % 1000) \div 100) \o Digit((n % 100) \div 10) \o Digit(n % 10)

(* formatCurrency of an integer: en-US grouping, two fraction digits *)
formatCurrency(n) == (IF n < 0 THEN "-" ELSE "") \o Grouped(IF n < 0 THEN -n ELSE n) \o ".00"

(* n.toFixed(2) of an integer *)
toFixed2(n) == String(n) \o ".00"

(* s.toUpperCase(), on the ticker symbols the model uses *)
toUpperCase(s) ==
  CASE s = "aapl" -> "AAPL"
    [] s = "msft" -> "MSFT"
    [] OTHER      -> s

(* Math.min(Math.max(arg || dflt, lo), hi): arg is [has, v], has = FALSE when *)
(* the argument is undefined; undefined and 0 are falsy                       *)
OrDefault(arg, dflt) == IF arg.has /\ arg.v # 0 THEN arg.v ELSE dflt

Max(a, b) == IF a >= b THEN a ELSE b
Min(a, b) == IF a <= b THEN a ELSE b

(* A clamp that forgets the lower limit *)
Clamp_noFloor(arg, dflt, lo, hi) == Min(OrDefault(arg, dflt), hi)

Clamp(arg, dflt, lo, hi) == Min(Max(OrDefault(arg, dflt), lo), hi)

Undefined == [has |-> FALSE, v |-> 0]
Num(n)    == [has |-> TRUE, v |-> n]

----------------------------------------------------------------------------
(* Tool results and route results.  text is the text block as its lines    *)
(* (the code joins them with "\n"); a route result is the JSON it returns: *)
(* {error: text[1]} when isError, else data (with symbol merged in for     *)
(* /quote).  shape "rejected" is a promise that rejected.                  *)

NoOutput == [shape |-> "none", isError |-> FALSE, text |-> <<>>, data |-> JNull, symbol |-> ""]

ok(lines) == [shape |-> "tool", isError |-> FALSE, text |-> lines, data |-> JNull, symbol |-> ""]
err(msg)  == [shape |-> "tool", isError |-> TRUE, text |-> <<msg>>, data |-> JNull, symbol |-> ""]

routeData(symbol, data) ==
  [shape |-> "route", isError |-> FALSE, text |-> <<>>, data |-> data, symbol |-> symbol]
routeError(msg) ==
  [shape |-> "route", isError |-> TRUE, text |-> <<msg>>, data |-> JNull, symbol |-> ""]

(* The arguments of a handler: "" and Undefined for what the caller left out *)
NoArgs ==
  [symbol |-> "", symbols |-> <<>>, query |-> "", resolution |-> "",
   days |-> Undefined, limit |-> Undefined]

NoLocals == [symbol |-> "", resolution |-> "", days |-> 0, limit |-> 0, shown |-> 0]

IdleHandler ==
  [pc |-> "idle", tool |-> "", args |-> NoArgs, loc |-> NoLocals, path |-> "",
   params |-> <<>>, items |-> <<>>, results |-> <<>>, result |-> NoOutput]

(* What a block of code comes to: a value returned, or an exception thrown *)
Returned(r)  == [thrown |-> FALSE, msg |-> "", value |-> r]
Thrown(msg)  == [thrown |-> TRUE, msg |-> msg, value |-> NoOutput]

ConfigMessage == "Finnhub API key not configured. Set it in plugin settings."
TypeErrorMessage == "TypeError: Cannot read properties of undefined"

(* getKey(): the setting, or a throw when it is falsy *)
getKey(value) == IF value = "" THEN Thrown(ConfigMessage) ELSE Returned(value)

Tools ==
  {"stock_quote", "stock_quotes", "stock_search", "stock_company_profile",
   "stock_candles", "stock_news", "stock_peers", "stock_metrics"}
Routes == {"GET /quote/:symbol", "GET /search/:query"}

IsRoute(tool) == tool \in Routes

(* A handler whose catch clause is missing: the exception leaves the handler *)
TryCatch_rethrows(tool, body) ==
  IF body.thrown
  THEN [shape |-> "rejected", isError |-> FALSE, text |-> <<body.msg>>,
        data |-> JNull, symbol |-> ""]
  ELSE body.value

(* try { body } catch (e) { return err(e.message) }, and for a route *)
(* catch (e) { return { error: e.message } }                         *)
TryCatch(tool, body) ==
  IF body.thrown
  THEN (IF IsRoute(tool) THEN routeError(body.msg) ELSE err(body.msg))
  ELSE body.value

----------------------------------------------------------------------------
(* Payloads of the endpoints *)

QuoteOf(c, o, d, dp, wf) ==
  [J("object", 0, "quote") EXCEPT
     !.q = [c |-> c, o |-> o, d |-> d, dp |-> dp,
            hi |-> IF c >= o THEN c ELSE o, lo |-> IF c >= o THEN o ELSE c, pc |-> c - d],
     !.wf = wf]

QuoteA    == QuoteOf(150, 149, 2, 1, TRUE)
QuoteB    == QuoteOf(1090, 1095, -5, -1, TRUE)
QuoteZero == QuoteOf(0, 0, 0, 0, TRUE)       \* an unknown ticker
QuoteOpen == QuoteOf(0, 149, 0, 0, TRUE)     \* no current price, but an open
QuoteBad  == QuoteOf(150, 0, 0, 0, FALSE)    \* c alone: d, dp, h, l, pc missing

(* An array of n elements; list holds them when they are strings *)
ArrayOf(n, list, wf) == [J("array", 0, "") EXCEPT !.len = n, !.list = list, !.wf = wf]

(* An object named s whose array (result, c, metric's keys) has n elements *)
ObjectOf(s, n, wf) == [J("object", 0, s) EXCEPT !.len = n, !.wf = wf]

PayloadsOf(path) ==
  CASE path = "/quote"          -> {JNull, QuoteA, QuoteB, QuoteZero, QuoteOpen, QuoteBad}
    [] path = "/search"         -> {JNull, ObjectOf("", 0, TRUE), ObjectOf("Common Stock", 2, TRUE),
                                    ObjectOf("Crypto", 2, TRUE)}
    [] path = "/stock/profile2" -> {JNull, ObjectOf("", 0, TRUE), ObjectOf("Apple Inc", 0, TRUE)}
    [] path = "/stock/candle"   -> {JNull, ObjectOf("no_data", 0, TRUE), ObjectOf("ok", 3, TRUE),
                                    ObjectOf("ok", 3, FALSE)}
    [] path = "/news"           -> {JNull, ArrayOf(0, <<>>, TRUE), ArrayOf(NewsLen, <<>>, TRUE)}
    [] path = "/company-news"   -> {ArrayOf(0, <<>>, TRUE), ArrayOf(2, <<>>, TRUE),
                                    ArrayOf(2, <<>>, FALSE)}
    [] path = "/stock/peers"    -> {JNull, ArrayOf(0, <<>>, TRUE),
                                    ArrayOf(2, <<"AAPL", "MSFT">>, TRUE),
                                    ArrayOf(3, <<"MSFT", "AAPL", "GOOG">>, TRUE)}
    [] path = "/stock/metric"   -> {JNull, ObjectOf("no metric", 0, TRUE), ObjectOf("metric", 0, TRUE),
                                    ObjectOf("metric", 12, TRUE)}
    [] OTHER                    -> {}

----------------------------------------------------------------------------
(* The cache store *)

EmptyCache == [k \in {} |-> JNull]

Remove(store, key) == [k \in DOMAIN store \ {key} |-> store[k]]

(* getCached without the expiry test: an entry is served however old it is *)
getCached_noExpiry(store, key, t) ==
  IF key \in DOMAIN store THEN [ret |-> store[key].data, store |-> store]
  ELSE [ret |-> JNull, store |-> store]

(* getCached that sweeps the store: every lookup removes all expired entries *)
getCached_sweep(store, key, t) ==
  LET kept == [k \in {j \in DOMAIN store : t <= store[j].expiry} |-> store[k]]
  IN [ret |-> IF key \in DOMAIN kept THEN kept[key].data ELSE JNull, store |-> kept]

(* getCached: the value returned (null on a miss) and the store afterwards *)
getCached(store, key, t) ==
  IF key \notin DOMAIN store THEN [ret |-> JNull, store |-> store]
  ELSE IF t > store[key].expiry THEN [ret |-> JNull, store |-> Remove(store, key)]
  ELSE [ret |-> store[key].data, store |-> store]

(* setCache that keeps an entry already present: the first write wins *)
setCache_keepFirst(store, key, data, t) ==
  IF key \in DOMAIN store THEN store
  ELSE [k \in DOMAIN store \cup {key} |->
          IF k = key THEN [data |-> data, expiry |-> t + CACHE_TTL_MS] ELSE store[k]]

setCache(store, key, data, t) ==
  [k \in DOMAIN store \cup {key} |->
     IF k = key THEN [data |-> data, expiry |-> t + CACHE_TTL_MS] ELSE store[k]]

----------------------------------------------------------------------------
(* Spec: callers of finnhub() *)

Callers == 1..NumCallers

(* The (path, params) pairs the callers ask for *)
Requests ==
  { [path |-> "/quote",       params |-> PSym],
    [path |-> "/stock/peers", params |-> PSymGrp],
    [path |-> "/stock/peers", params |-> PGrpSym] }

Failures == {"transport", "status", "json"}

ErrorMessage(f) ==
  CASE f = "transport" -> "fetch failed"
    [] f = "status"    -> "Finnhub 429: API limit reached"
    [] f = "json"      -> "Unexpected end of JSON input"

(* What a call saw at its lookup, before getCached ran: whether the store *)
(* held an entry for the key, whether the clock was past its expiry, and  *)
(* the value of a live entry                                              *)
Lookup(store, key, t) ==
  LET live == key \in DOMAIN store /\ t <= store[key].expiry
  IN [live    |-> live,
      expired |-> key \in DOMAIN store /\ t > store[key].expiry,
      stored  |-> IF live THEN store[key].data ELSE JNull]

NoLookup == [live |-> FALSE, expired |-> FALSE, stored |-> JNull]

(* The store holds a live, truthy entry for a request with the path and the *)
(* name/value pairs of (path, params), in whatever order they were inserted *)
SameRequestLive(store, path, params, t) ==
  \E q \in Requests :
    /\ q.path = path
    /\ Mapping(q.params) = Mapping(params)
    /\ Lookup(store, cacheKey(q.path, q.params), t).live
    /\ Truthy(Lookup(store, cacheKey(q.path, q.params), t).stored)

IdleCall ==
  [pc |-> "idle", path |-> "", params |-> <<>>, apiKey |-> "",
   saw |-> NoLookup, same |-> FALSE, evicted |-> FALSE, solo |-> FALSE]

NoResult ==
  [path |-> "", params |-> <<>>, saw |-> NoLookup, same |-> FALSE, evicted |-> FALSE,
   fetched |-> FALSE, ret |-> JNull, threw |-> FALSE, err |-> ""]

KeyOf(c) == cacheKey(call[c].path, call[c].params)
UrlOf(c) == requestUrl(call[c].path, call[c].apiKey, call[c].params)

InFlight(c) == call[c].pc = "fetching"

(* `return cached` and `return data`: the promise resolves *)
Resolved(r, fetched, data) ==
  [path |-> r.path, params |-> r.params, saw |-> r.saw, same |-> r.same,
   evicted |-> r.evicted, fetched |-> fetched, ret |-> data, threw |-> FALSE, err |-> ""]

(* `throw new Error(...)`, or the rejection of fetch() or res.json() passing *)
(* through: the promise rejects                                              *)
Rejected(r, f) ==
  [path |-> r.path, params |-> r.params, saw |-> r.saw, same |-> r.same,
   evicted |-> r.evicted, fetched |-> TRUE, ret |-> JNull, threw |-> TRUE, err |-> ErrorMessage(f)]

(* finnhub(), up to `await fetch(...)`: the lookup, then a return on a hit *)
(* or the request on a miss                                                *)
Call(c, path, params, apiKey) ==
  LET key == cacheKey(path, params)
      got == getCached(cache, key, now)
      hit == Truthy(got.ret)
      r   == [pc |-> "fetching", path |-> path, params |-> params, apiKey |-> apiKey,
              saw |-> Lookup(cache, key, now),
              same |-> SameRequestLive(cache, path, params, now),
              evicted |-> (got.store # cache),
              solo |-> \A d \in Callers \ {c} : ~InFlight(d)]
  IN /\ ~InFlight(c)
     /\ hit \/ fetchCount < MaxFetches
     /\ cache' = got.store
     /\ call' = [d \in Callers |->
                   IF d = c THEN (IF hit THEN IdleCall ELSE r)
                   ELSE [call[d] EXCEPT !.solo = FALSE]]
     /\ last' = IF hit THEN Resolved(r, FALSE, got.ret) ELSE last
     /\ fetchCount' = IF hit THEN fetchCount ELSE fetchCount + 1
     /\ quiet' = FALSE
     /\ deactivated' = FALSE
     /\ UNCHANGED <<now, toolVars>>

(* finnhub(), after the await: res.ok, and res.json() resolved to data *)
FetchOk(c, data) ==
  /\ InFlight(c)
  /\ cache' = setCache(cache, KeyOf(c), data, now)
  /\ call' = [call EXCEPT ![c] = IdleCall]
  /\ last' = Resolved(call[c], TRUE, data)
  /\ quiet' = call[c].solo
  /\ UNCHANGED <<now, fetchCount, deactivated, toolVars>>

(* The body of an error response *)
JErrBody == J("object", 429, "error")

(* A finnhub() that parses and stores the body before it tests res.ok *)
FetchFail_stores(c, f) ==
  /\ InFlight(c)
  /\ cache' = IF f = "status" THEN setCache(cache, KeyOf(c), JErrBody, now) ELSE cache
  /\ call' = [call EXCEPT ![c] = IdleCall]
  /\ last' = Rejected(call[c], f)
  /\ quiet' = call[c].solo
  /\ UNCHANGED <<now, fetchCount, deactivated, toolVars>>

(* finnhub(), after the await: fetch rejected, !res.ok, or res.json() rejected *)
FetchFail(c, f) ==
  /\ InFlight(c)
  /\ call' = [call EXCEPT ![c] = IdleCall]
  /\ last' = Rejected(call[c], f)
  /\ quiet' = call[c].solo
  /\ UNCHANGED <<cache, now, fetchCount, deactivated, toolVars>>

TickSteps == {CACHE_TTL_MS, CACHE_TTL_MS + 1}

(* The clock moves on *)
Tick(d) ==
  /\ now + d <= MaxTime
  /\ now' = now + d
  /\ UNCHANGED <<cache, fetchCount, callVars, toolVars>>

deactivate ==
  /\ cache' = EmptyCache
  /\ deactivated' = TRUE
  /\ UNCHANGED <<now, fetchCount, call, last, quiet, toolVars>>

Init ==
  /\ cache = EmptyCache
  /\ now = 0
  /\ fetchCount = 0
  /\ call = [c \in Callers |-> IdleCall]
  /\ last = NoResult
  /\ quiet = FALSE
  /\ deactivated = FALSE
  /\ setting = "K1"
  /\ h = IdleHandler

Next ==
  \/ \E c \in Callers, r \in Requests, apiKey \in ApiKeys :
       Call(c, r.path, r.params, apiKey)
  \/ \E c \in Callers, data \in Payloads : FetchOk(c, data)
  \/ \E c \in Callers, f \in Failures : FetchFail(c, f)
  \/ \E d \in TickSteps : Tick(d)
  \/ deactivate

Spec == Init /\ [][Next]_vars

(* SpecKeys: callers with two API keys. The first key is used at any time; *)
(* a call with the second key is made while the store holds an entry for   *)
(* its key that has not expired                                            *)
FirstKey  == "K1"
SecondKey == "K2"

SecondCall(c, path, params) ==
  /\ Lookup(cache, cacheKey(path, params), now).live
  /\ Call(c, path, params, SecondKey)

NextKeys ==
  \/ \E c \in Callers, r \in Requests : Call(c, r.path, r.params, FirstKey)
  \/ \E c \in Callers, r \in Requests : SecondCall(c, r.path, r.params)
  \/ \E c \in Callers, data \in Payloads : FetchOk(c, data)
  \/ \E c \in Callers, f \in Failures : FetchFail(c, f)
  \/ \E d \in TickSteps : Tick(d)

SpecKeys == Init /\ [][NextKeys]_vars

----------------------------------------------------------------------------
(* The handlers (activate(): routes and tools) *)

(* What `await finnhub(...)` comes to *)
Got(data)   == [thrown |-> FALSE, msg |-> "", data |-> data]
Failed(msg) == [thrown |-> TRUE, msg |-> msg, data |-> JNull]

(* Date arithmetic of new Date(ms).toISOString().split("T")[0] *)
Pad2(n) == Digit(n \div 10) \o Digit(n % 10)

IsoDate(ms) ==
  LET z   == (ms \div 86400000) + 719468
      era == z \div 146097
      doe == z - era * 146097
      yoe == (doe - doe \div 1460 + doe \div 36524 - doe \div 146096) \div 365
      doy == doe - (365 * yoe + yoe \div 4 - yoe \div 100)
      mp  == (5 * doy + 2) \div 153
      d   == doy - (153 * mp + 2) \div 5 + 1
      m   == IF mp < 10 THEN mp + 3 ELSE mp - 9
      y   == yoe + era * 400 + (IF m <= 2 THEN 1 ELSE 0)
  IN String(y) \o "-" \o Pad2(m) \o "-" \o Pad2(d)

P(k, v) == [k |-> k, v |-> v]

(* The locals a handler computes from its arguments before its first call *)
LocalsOf(tool, a) ==
  [symbol     |-> toUpperCase(a.symbol),
   resolution |-> IF a.resolution # "" THEN a.resolution ELSE "D",
   days       |-> IF tool = "stock_candles" THEN Clamp(a.days, 30, 1, 365) ELSE 0,
   limit      |-> IF tool = "stock_news" THEN Clamp(a.limit, 5, 1, 20) ELSE 0,
   shown      |-> 0]

(* A clock in minutes *)
Seconds_minutes(t) == t \div 60000

(* Math.floor(Date.now() / 1000) *)
Seconds(t) == t \div 1000

(* The path and params of that call *)
RequestOf(tool, a, loc, t) ==
  CASE tool \in {"stock_quote", "GET /quote/:symbol"} ->
         [path |-> "/quote", params |-> <<P("symbol", loc.symbol)>>]
    [] tool \in {"stock_search", "GET /search/:query"} ->
         [path |-> "/search", params |-> <<P("q", a.query)>>]
    [] tool = "stock_company_profile" ->
         [path |-> "/stock/profile2", params |-> <<P("symbol", loc.symbol)>>]
    [] tool = "stock_candles" ->
         LET to   == Seconds(t)
             from == to - loc.days * 86400
         IN [path |-> "/stock/candle",
             params |-> <<P("symbol", loc.symbol), P("resolution", loc.resolution),
                          P("from", String(from)), P("to", String(to))>>]
    [] tool = "stock_news" ->
         IF a.symbol # ""
         THEN [path |-> "/company-news",
               params |-> <<P("symbol", loc.symbol),
                            P("from", IsoDate(t - 7 * 86400000)), P("to", IsoDate(t))>>]
         ELSE [path |-> "/news", params |-> <<P("category", "general")>>]
    [] tool = "stock_peers" ->
         [path |-> "/stock/peers",
          params |-> <<P("symbol", loc.symbol), P("grouping", "industry")>>]
    [] tool = "stock_metrics" ->
         [path |-> "/stock/metric", params |-> <<P("symbol", loc.symbol), P("metric", "all")>>]

Sign(n) == IF n >= 0 THEN "+" ELSE ""

(* `${symbol}: $${formatCurrency(q.c)} (${dir}${q.dp.toFixed(2)}%)` *)
PriceLine(symbol, q) ==
  symbol \o ": $" \o formatCurrency(q.c) \o " (" \o Sign(q.d) \o toFixed2(q.dp) \o "%)"

RECURSIVE Numbered(_, _, _)
Numbered(prefix, i, n) ==
  IF i > n THEN <<>> ELSE <<prefix \o String(i)>> \o Numbered(prefix, i + 1, n)

RECURSIVE Articles(_, _)
Articles(i, n) ==
  IF i > n THEN <<>>
  ELSE <<"", "[Jan 1, 12:00 AM] Headline " \o String(i),
         "  Source: Wire | https://example.com/" \o String(i)>> \o Articles(i + 1, n)

(* The rest of each handler's try block, from the value of its first call *)
Body(tool, a, loc, data) ==
  CASE tool = "stock_quote" ->
         IF data.t = "null" THEN Thrown(TypeErrorMessage)
         ELSE IF data.q.c = 0 /\ data.q.o = 0
         THEN Returned(err("No data found for symbol \"" \o loc.symbol
                           \o "\". Check the ticker and try again."))
         ELSE IF ~data.wf THEN Thrown(TypeErrorMessage)
         ELSE Returned(ok(<<
           loc.symbol \o ": $" \o formatCurrency(data.q.c),
           "Change: " \o Sign(data.q.d) \o "$" \o formatCurrency(data.q.d)
             \o " (" \o Sign(data.q.d) \o toFixed2(data.q.dp) \o "%)",
           "Open: $" \o formatCurrency(data.q.o) \o "  |  Prev Close: $"
             \o formatCurrency(data.q.pc),
           "High: $" \o formatCurrency(data.q.hi) \o "  |  Low: $"
             \o formatCurrency(data.q.lo) >>))
    [] tool = "stock_search" ->
         IF data.t = "null" THEN Thrown(TypeErrorMessage)
         ELSE IF data.len = 0 THEN Returned(err("No results for \"" \o a.query \o "\"."))
         ELSE IF data.s \notin {"Common Stock", "ETP", "ETF", "REIT", "ADR", ""}
         THEN Returned(ok(<<"Found results but none were common stocks/ETFs. Raw results:">>
                          \o Numbered("SYM", 1, Min(data.len, 5))))
         ELSE Returned(ok(<<"Search results for \"" \o a.query \o "\":">>
                          \o Numbered("SYM", 1, Min(data.len, 10))))
    [] tool = "stock_company_profile" ->
         IF data.t = "null" THEN Thrown(TypeErrorMessage)
         ELSE IF data.s = ""
         THEN Returned(err("No company profile found for \"" \o loc.symbol \o "\"."))
         ELSE Returned(ok(<<data.s \o " (" \o loc.symbol \o ")", "Industry: N/A",
                            "Exchange: N/A", "Market Cap: $NaN", "Shares Outstanding: NaN",
                            "IPO Date: N/A", "Country: N/A", "Currency: N/A",
                            "Website: N/A">>))
    [] tool = "stock_candles" ->
         IF data.t = "null" THEN Thrown(TypeErrorMessage)
         ELSE IF data.s # "ok" \/ data.len = 0
         THEN Returned(err("No candle data for \"" \o loc.symbol \o "\" with resolution "
                           \o loc.resolution \o " over " \o String(loc.days) \o " days."))
         ELSE IF ~data.wf THEN Thrown(TypeErrorMessage)
         ELSE Returned(ok(<<loc.symbol \o " - " \o String(data.len) \o " candles ("
                              \o loc.resolution \o " resolution, " \o String(loc.days)
                              \o " days)",
                            "", "Last " \o String(Min(5, data.len)) \o " data points:">>
                          \o Numbered("  point ", data.len - Min(5, data.len) + 1, data.len)))
    [] tool = "stock_news" ->
         IF data.t = "null" \/ data.len = 0
         THEN Returned(ok(<<IF a.symbol # "" THEN "No recent news for " \o loc.symbol \o "."
                            ELSE "No market news available.">>))
         ELSE IF ~data.wf THEN Thrown(TypeErrorMessage)
         ELSE Returned(ok(<<IF a.symbol # "" THEN "News for " \o loc.symbol \o ":"
                            ELSE "Market News:">>
                          \o Articles(1, Min(data.len, loc.limit))))
    [] tool = "stock_peers" ->
         \* the part before the per-peer quotes
         IF data.t = "null" \/ data.len = 0
         THEN Returned(err("No peers found for \"" \o loc.symbol \o "\"."))
         ELSE Returned(ok(<<"Peers of " \o loc.symbol \o ":">>))
    [] tool = "stock_metrics" ->
         IF data.t = "null" THEN Thrown(TypeErrorMessage)
         ELSE IF data.s # "metric" \/ data.len = 0
         THEN Returned(err("No metrics found for \"" \o loc.symbol \o "\"."))
         ELSE Returned(ok(<<"Key Metrics for " \o loc.symbol \o ":", "">>
                          \o Numbered("metric ", 1, data.len)))
    [] tool = "GET /quote/:symbol" -> Returned(routeData(loc.symbol, data))
    [] tool = "GET /search/:query" -> Returned(routeData("", data))

(* The number of articles the news handler renders: news.slice(0, limit).length *)
ShownOf(tool, loc, data) ==
  IF tool = "stock_news" /\ data.t # "null" THEN Min(data.len, loc.limit) ELSE 0

(* The per-item callbacks of the two batch tools *)

Pending == "<pending>"

(* The line of one item, from what its `await finnhub(...)` came to; the *)
(* inner catch turns any throw into the placeholder                      *)
ItemLine(tool, sym, fin) ==
  LET placeholder == IF tool = "stock_quotes" THEN sym \o ": Error fetching"
                     ELSE sym \o ": Error"
      nodata == IF tool = "stock_quotes" THEN fin.data.q.c = 0 /\ fin.data.q.o = 0
                ELSE fin.data.q.c = 0
  IN IF fin.thrown \/ fin.data.t = "null" THEN placeholder
     ELSE IF nodata THEN sym \o ": No data"
     ELSE IF ~fin.data.wf THEN placeholder
     ELSE PriceLine(sym, fin.data.q)

(* A join that fills the result array in the order the items settle *)
PromiseAllSet_settleOrder(results, i, line) ==
  LET free == {j \in 1..Len(results) : results[j] = Pending}
      j    == CHOOSE x \in free : \A y \in free : x <= y
  IN [results EXCEPT ![j] = line]

(* Promise.all: the value of the i-th promise goes to index i *)
PromiseAllSet(results, i, line) == [results EXCEPT ![i] = line]

RECURSIVE MapUpper(_)
MapUpper(syms) ==
  IF syms = <<>> THEN <<>> ELSE <<toUpperCase(Head(syms))>> \o MapUpper(Tail(syms))

RECURSIVE Without(_, _)
Without(list, x) ==
  IF list = <<>> THEN <<>>
  ELSE (IF Head(list) = x THEN <<>> ELSE <<Head(list)>>) \o Without(Tail(list), x)

(* peers.filter((p) => p !== symbol).slice(0, 8) *)
TopPeers(symbol, list) ==
  LET f == Without(list, symbol) IN SubSeq(f, 1, Min(8, Len(f)))

ItemKey(sym) == cacheKey("/quote", <<P("symbol", sym)>>)

(* symbols.map(async ...): each callback runs to its await, in index order: *)
(* getKey(), the lookup, and the request on a miss                          *)
RECURSIVE Launch(_, _, _, _, _)
Launch(syms, i, store, t, keyval) ==
  IF i > Len(syms) THEN [store |-> store, items |-> <<>>, misses |-> 0]
  ELSE LET k    == getKey(keyval)
           got  == getCached(store, ItemKey(syms[i]), t)
           item == IF k.thrown
                   THEN [sym |-> syms[i], pc |-> "settled", fin |-> Failed(k.msg)]
                   ELSE IF Truthy(got.ret)
                   THEN [sym |-> syms[i], pc |-> "settled", fin |-> Got(got.ret)]
                   ELSE [sym |-> syms[i], pc |-> "fetching", fin |-> Got(JNull)]
           rest == Launch(syms, i + 1, IF k.thrown THEN store ELSE got.store, t, keyval)
       IN [store  |-> rest.store,
           items  |-> <<item>> \o rest.items,
           misses |-> rest.misses + (IF item.pc = "fetching" THEN 1 ELSE 0)]

(* The items that settled without a fetch take their places in the join *)
RECURSIVE SettleEarly(_, _, _, _)
SettleEarly(tool, items, i, results) ==
  IF i > Len(items) THEN results
  ELSE SettleEarly(tool, items, i + 1,
         IF items[i].pc = "settled"
         THEN PromiseAllSet(results, i, ItemLine(tool, items[i].sym, items[i].fin))
         ELSE results)

AllSettled(items) == \A i \in 1..Len(items) : items[i].pc = "settled"

(* return ok(results.join("\n")), and for the peers the heading before it *)
BatchResult(tool, loc, results) ==
  IF tool = "stock_quotes" THEN ok(results)
  ELSE ok(<<"Peers of " \o loc.symbol \o ":">> \o results)

Finished(tool, a, loc, items, results, result, shown) ==
  [pc |-> "done", tool |-> tool, args |-> a, loc |-> [loc EXCEPT !.shown = shown],
   path |-> "", params |-> <<>>, items |-> items, results |-> results, result |-> result]

(* The handler starts its per-item calls and awaits Promise.all *)
StartBatch(tool, a, loc, syms, store, maxReq) ==
  LET L       == Launch(syms, 1, store, now, setting)
      results == SettleEarly(tool, L.items, 1, [i \in 1..Len(syms) |-> Pending])
  IN /\ fetchCount + L.misses <= maxReq
     /\ cache' = L.store
     /\ fetchCount' = fetchCount + L.misses
     /\ h' = IF AllSettled(L.items)
             THEN Finished(tool, a, loc, L.items, results,
                           TryCatch(tool, Returned(BatchResult(tool, loc, results))), 0)
             ELSE [pc |-> "batch", tool |-> tool, args |-> a, loc |-> loc, path |-> "",
                   params |-> <<>>, items |-> L.items, results |-> results,
                   result |-> NoOutput]

(* The handler goes on from what its first `await finnhub(...)` came to *)
Continue(tool, a, loc, fin, store, maxReq) ==
  IF tool = "stock_peers" /\ ~fin.thrown /\ ~Body(tool, a, loc, fin.data).value.isError
  THEN StartBatch(tool, a, loc, TopPeers(loc.symbol, fin.data.list), store, maxReq)
  ELSE /\ cache' = store
       /\ fetchCount' = fetchCount
       /\ h' = Finished(tool, a, loc, <<>>, <<>>,
                        TryCatch(tool, IF fin.thrown THEN Thrown(fin.msg)
                                       ELSE Body(tool, a, loc, fin.data)),
                        IF fin.thrown THEN 0 ELSE ShownOf(tool, loc, fin.data))

(* A handler is called: it runs to its first await, or to its return *)
Invoke(tool, a, maxReq) ==
  LET loc == LocalsOf(tool, a)
      k   == getKey(setting)
      rq  == RequestOf(tool, a, loc, now)
      got == getCached(cache, cacheKey(rq.path, rq.params), now)
  IN /\ h.pc \in {"idle", "done"}
     /\ IF tool = "stock_quotes"
        THEN StartBatch(tool, a, loc, MapUpper(a.symbols), cache, maxReq)
        ELSE IF k.thrown THEN Continue(tool, a, loc, Failed(k.msg), cache, maxReq)
        ELSE IF Truthy(got.ret) THEN Continue(tool, a, loc, Got(got.ret), got.store, maxReq)
        ELSE /\ fetchCount < maxReq
             /\ cache' = got.store
             /\ fetchCount' = fetchCount + 1
             /\ h' = [pc |-> "await", tool |-> tool, args |-> a, loc |-> loc,
                      path |-> rq.path, params |-> rq.params, items |-> <<>>,
                      results |-> <<>>, result |-> NoOutput]
     /\ UNCHANGED <<now, setting, callVars>>

(* The handler's first request is answered: finnhub() stores and returns *)
Respond(data, maxReq) ==
  /\ h.pc = "await"
  /\ Continue(h.tool, h.args, h.loc, Got(data),
              setCache(cache, cacheKey(h.path, h.params), data, now), maxReq)
  /\ UNCHANGED <<now, setting, callVars>>

(* The handler's first request fails: finnhub() throws *)
Fail(f) ==
  /\ h.pc = "await"
  /\ Continue(h.tool, h.args, h.loc, Failed(ErrorMessage(f)), cache, 0)
  /\ UNCHANGED <<now, setting, callVars>>

(* One item of a batch settles with what its request came to *)
ItemSettles(i, fin) ==
  LET items   == [h.items EXCEPT ![i] = [@ EXCEPT !.pc = "settled", !.fin = fin]]
      results == PromiseAllSet(h.results, i, ItemLine(h.tool, h.items[i].sym, fin))
  IN h' = IF AllSettled(items)
          THEN Finished(h.tool, h.args, h.loc, items, results,
                        TryCatch(h.tool, Returned(BatchResult(h.tool, h.loc, results))), 0)
          ELSE [h EXCEPT !.items = items, !.results = results]

ItemRespond(i, data) ==
  /\ h.pc = "batch"
  /\ h.items[i].pc = "fetching"
  /\ cache' = setCache(cache, ItemKey(h.items[i].sym), data, now)
  /\ ItemSettles(i, Got(data))
  /\ UNCHANGED <<now, fetchCount, setting, callVars>>

ItemFail(i, f) ==
  /\ h.pc = "batch"
  /\ h.items[i].pc = "fetching"
  /\ ItemSettles(i, Failed(ErrorMessage(f)))
  /\ UNCHANGED <<cache, now, fetchCount, setting, callVars>>

Settings == {"", "K1"}

(* The host changes the setting *)
SetSetting(v) ==
  /\ v # setting
  /\ setting' = v
  /\ UNCHANGED <<cache, now, fetchCount, h, callVars>>

Symbols == {"aapl", "MSFT"}

RECURSIVE SeqsUpTo(_, _)
SeqsUpTo(S, n) ==
  IF n = 0 THEN {<<>>}
  ELSE SeqsUpTo(S, n - 1) \cup
       {Append(q, x) : q \in {r \in SeqsUpTo(S, n - 1) : Len(r) = n - 1}, x \in S}

Arg(symbol) == [NoArgs EXCEPT !.symbol = symbol]

(* SpecTools: every tool and both routes, the setting set and not set *)
ArgsOf(tool) ==
  CASE tool = "stock_quotes" ->
         {[NoArgs EXCEPT !.symbols = q] : q \in {<<>>, <<"aapl">>}}
    [] tool \in {"stock_search", "GET /search/:query"} ->
         {[NoArgs EXCEPT !.query = "apple"]}
    [] tool = "stock_news" ->
         {Arg(""), Arg("aapl")}
    [] OTHER ->
         {Arg("aapl")}

NextTools ==
  \/ \E tool \in Tools \cup Routes : \E a \in ArgsOf(tool) : Invoke(tool, a, MaxToolRequests)
  \/ \E data \in PayloadsOf(h.path) : Respond(data, MaxToolRequests)
  \/ \E f \in Failures : Fail(f)
  \/ \E i \in DOMAIN h.items, data \in PayloadsOf("/quote") : ItemRespond(i, data)
  \/ \E i \in DOMAIN h.items, f \in Failures : ItemFail(i, f)
  \/ \E v \in Settings : SetSetting(v)

SpecTools == Init /\ [][NextTools]_vars

(* SpecBatch: the two batch tools, their per-item requests answered in any order *)
SymbolLists == SeqsUpTo(Symbols, MaxSymbols)

BatchArgsOf(tool) ==
  IF tool = "stock_quotes"
  THEN {[NoArgs EXCEPT !.symbols = q] : q \in SymbolLists}
  ELSE {Arg("aapl")}

BatchPayloadsOf(path) == PayloadsOf(path) \ {JNull, QuoteOpen, QuoteBad}

NextBatch ==
  \/ \E tool \in {"stock_quotes", "stock_peers"} : \E a \in BatchArgsOf(tool) :
       Invoke(tool, a, MaxBatchRequests)
  \/ \E data \in BatchPayloadsOf(h.path) : Respond(data, MaxBatchRequests)
  \/ Fail("status")
  \/ \E i \in DOMAIN h.items, data \in BatchPayloadsOf("/quote") : ItemRespond(i, data)
  \/ \E i \in DOMAIN h.items : ItemFail(i, "status")

SpecBatch == Init /\ [][NextBatch]_vars

(* SpecArgs: the two tools with numeric arguments, over the values of days *)
(* and limit                                                               *)
Numbers == {-5, 0, 1, 7, 20, 21, 365, 366}

NumericArgsOf(tool) ==
  IF tool = "stock_candles"
  THEN {[Arg("aapl") EXCEPT !.days = d] : d \in {Undefined} \cup {Num(n) : n \in Numbers}}
  ELSE {[NoArgs EXCEPT !.limit = l] : l \in {Undefined} \cup {Num(n) : n \in Numbers}}

NextArgs ==
  \/ \E tool \in {"stock_candles", "stock_news"} : \E a \in NumericArgsOf(tool) :
       Invoke(tool, a, MaxArgRequests)
  \/ \E data \in PayloadsOf(h.path) : Respond(data, MaxArgRequests)
  \/ \E f \in Failures : Fail(f)

SpecArgs == Init /\ [][NextArgs]_vars

(* SpecCandles: stock_candles called at several instants of the clock: two *)
(* in one second, and one a TTL later                                      *)
Instants == {0, 999, CACHE_TTL_MS}

(* The clock moves on to a later instant *)
Advance(t) ==
  /\ t > now
  /\ now' = t
  /\ UNCHANGED <<cache, fetchCount, callVars, toolVars>>

CandleArgs == {[Arg("aapl") EXCEPT !.days = d] : d \in {Undefined, Num(7)}}

NextCandles ==
  \/ \E a \in CandleArgs : Invoke("stock_candles", a, MaxArgRequests)
  \/ \E data \in PayloadsOf(h.path) : Respond(data, MaxArgRequests)
  \/ \E f \in Failures : Fail(f)
  \/ \E t \in Instants : Advance(t)

SpecCandles == Init /\ [][NextCandles]_vars

----------------------------------------------------------------------------
(* Properties of the caching wrapper, checked under Spec *)

LastKey == cacheKey(last.path, last.params)

(* Steps of one caller: its call missed and sent a request; its request *)
(* settled with a value; its request settled with an error              *)
Misses(c)      == ~InFlight(c) /\ InFlight(c)'
SettlesOk(c)   == InFlight(c) /\ ~InFlight(c)' /\ ~last'.threw
SettlesFail(c) == InFlight(c) /\ ~InFlight(c)' /\ last'.threw

(* A call made now for (path, params) would be served from the store *)
WouldHit(path, params) ==
  LET saw == Lookup(cache, cacheKey(path, params), now)
  IN saw.live /\ Truthy(saw.stored)

(* C1: a call that finds an unexpired entry for its key, whatever JSON value *)
(* was stored (null, false, 0 and "" included), returns the stored value and *)
(* makes no upstream request.                                                *)
C1_LiveEntryServed ==
  last.saw.live => ~last.fetched /\ ~last.threw /\ last.ret = last.saw.stored

(* C2: a call made when the clock is past the expiry of the entry stored for *)
(* its key is never served from the store: the entry is removed, the call    *)
(* makes one upstream request, and on success the fetched value is stored    *)
(* with expiry = completion time + 15000 ms.                                 *)
C2_ExpiredEntryRefetched ==
  /\ [](last.saw.expired => last.fetched /\ last.evicted)
  /\ [][\A c \in Callers :
          /\ (Misses(c) /\ call'[c].saw.expired) =>
               /\ KeyOf(c)' \notin DOMAIN cache'
               /\ fetchCount' = fetchCount + 1
          /\ SettlesOk(c) =>
               /\ fetchCount' = fetchCount
               /\ KeyOf(c) \in DOMAIN cache'
               /\ cache'[KeyOf(c)] = [data |-> last'.ret, expiry |-> now' + 15000]]_vars

(* C2 witness: a call found its entry expired, fetched, and its value now *)
(* sits in the store with a fresh expiry                                   *)
C2_Witness ==
  /\ last.saw.expired /\ last.fetched /\ ~last.threw
  /\ LastKey \in DOMAIN cache
  /\ cache[LastKey] = [data |-> last.ret, expiry |-> now + CACHE_TTL_MS]
  /\ now > CACHE_TTL_MS

(* C3: a call whose path and name/value pairs equal those of a live stored *)
(* entry, the pairs inserted in another order or the same, is served from  *)
(* the store and makes no upstream request.                                *)
C3_OrderIndependentKey ==
  last.same => ~last.fetched

(* C4 as stated: a failed call leaves the store exactly as it was before the *)
(* call, so the call itself removed nothing from it.                         *)
C4_StoreUntouchedByFailedCall ==
  last.threw => ~last.evicted

(* C4 as amended: a failed call stores nothing.  The failing step leaves the  *)
(* store unchanged; the lookup of a call that goes upstream changes the store *)
(* at most by removing the expired entry of its own key; an entry appears or  *)
(* changes only when a fetch for its key succeeds, and then holds the fetched *)
(* payload; and after a failure with no other call in flight or started       *)
(* meanwhile, the store serves no value for that key and the next step is not *)
(* a cache hit for it.                                                        *)
C4_FailureStoresNothing ==
  /\ [](last.threw => last.fetched /\ (last.evicted => last.saw.expired))
  /\ [](quiet /\ last.threw => ~WouldHit(last.path, last.params))
  /\ [][\A c \in Callers :
          /\ SettlesFail(c) => cache' = cache
          /\ Misses(c) =>
               cache' = IF call'[c].saw.expired THEN Remove(cache, KeyOf(c)')
                        ELSE cache]_vars
  /\ [][\A k \in DOMAIN cache' :
          (k \notin DOMAIN cache \/ cache'[k] # cache[k]) =>
             \E c \in Callers :
               SettlesOk(c) /\ KeyOf(c) = k /\ cache'[k].data = last'.ret]_vars
  /\ [][(quiet /\ last.threw) =>
          ~(~last'.threw /\ ~last'.fetched /\ LastKey' = LastKey)]_vars

(* C4 witness: a call that found its entry expired failed, alone *)
C4_Witness ==
  /\ last.threw /\ last.evicted /\ quiet
  /\ LastKey \notin DOMAIN cache

(* C8: once deactivate() has run and no call has started since, the store *)
(* holds no entry, fetches started before it included.                    *)
C8_EmptyAfterDeactivate ==
  deactivated => cache = EmptyCache

(* C9: every call that misses sends its own request, whether or not a       *)
(* request for the same key is in flight; a fetch that succeeds sets the     *)
(* entry of its key to its own value and expiry, replacing what an earlier   *)
(* fetch wrote, and leaves the entries of all other keys as they were.       *)
C9_LastWriteWins ==
  /\ [](Cardinality({c \in Callers : InFlight(c)}) <= fetchCount)
  /\ [][\A c \in Callers :
          /\ Misses(c) => fetchCount' = fetchCount + 1
          /\ SettlesOk(c) =>
               cache' = [k \in DOMAIN cache \cup {KeyOf(c)} |->
                           IF k = KeyOf(c)
                           THEN [data |-> last'.ret, expiry |-> now + CACHE_TTL_MS]
                           ELSE cache[k]]]_vars

(* C9 witness: two calls missed on the same key; one has stored its value, *)
(* the other is still in flight and will overwrite it                      *)
C9_Witness ==
  \E c \in Callers :
    /\ InFlight(c) /\ ~call[c].saw.live /\ ~call[c].saw.expired
    /\ KeyOf(c) = LastKey
    /\ last.fetched /\ ~last.threw /\ ~last.saw.live
    /\ LastKey \in DOMAIN cache /\ cache[LastKey].data = last.ret
    /\ fetchCount > 1

----------------------------------------------------------------------------
(* Properties of the handlers *)

(* A step in which a handler is called *)
Invoked == h.pc \in {"idle", "done"} /\ h' # h

BatchTools == {"stock_quotes", "stock_peers"}

(* C5: when the API key setting is absent, a call of any of the eight tools *)
(* returns at once the error result with the configuration message, and no  *)
(* upstream request is made                                                 *)
C5_MissingKeyIsConfigError ==
  [][(setting = "" /\ Invoked /\ h'.tool \in Tools) =>
       /\ h'.pc = "done"
       /\ h'.result = err(ConfigMessage)
       /\ fetchCount' = fetchCount]_vars

(* C6: a handler that has finished has resolved to a result of its shape: a *)
(* tool result with an isError flag and text, or for a route the data or an *)
(* object with the error string; no exception has left the handler          *)
C6_NoFaultCrossesBoundary ==
  h.pc = "done" =>
    /\ h.result.shape # "rejected"
    /\ h.result.isError \in BOOLEAN
    /\ h.tool \in Tools =>
         /\ h.result.shape = "tool"
         /\ h.result.isError => Len(h.result.text) = 1
    /\ h.tool \in Routes =>
         /\ h.result.shape = "route"
         /\ IF h.result.isError
            THEN Len(h.result.text) = 1 /\ h.result.data = JNull
            ELSE h.result.text = <<>>

(* C6 witness: a tool whose upstream call came back with a payload it could *)
(* not read has returned the error result, with the API key set             *)
C6_Witness ==
  /\ h.pc = "done" /\ h.tool = "stock_quote" /\ setting # ""
  /\ h.result = err(TypeErrorMessage)

(* The items a finished or running batch was asked for, in order *)
Requested ==
  IF h.tool = "stock_quotes" THEN MapUpper(h.args.symbols)
  ELSE LET key == cacheKey("/stock/peers",
                           <<P("symbol", h.loc.symbol), P("grouping", "industry")>>)
       IN IF key \in DOMAIN cache THEN TopPeers(h.loc.symbol, cache[key].data.list)
          ELSE <<>>

Fetching(i) == h.pc = "batch" /\ i \in DOMAIN h.items /\ h.items[i].pc = "fetching"

(* C7: the requests of a batch are all in flight together; in whatever order *)
(* they are answered, line i of the output is the line of the i-th requested *)
(* item, built from what its own request came to; a failed request gives the *)
(* placeholder on its own line only; and the batch returns a success result  *)
C7_BatchKeepsInputOrder ==
  /\ []((h.tool \in BatchTools /\ h.pc \in {"batch", "done"} /\ h.items # <<>>) =>
          /\ Len(h.items) = Len(Requested) /\ Len(h.results) = Len(Requested)
          /\ \A i \in DOMAIN h.items :
               /\ h.items[i].sym = Requested[i]
               /\ h.results[i] = IF h.items[i].pc = "fetching" THEN Pending
                                 ELSE ItemLine(h.tool, Requested[i], h.items[i].fin)
          /\ h.pc = "done" =>
               /\ ~h.result.isError
               /\ h.result.text = (IF h.tool = "stock_quotes" THEN <<>>
                                   ELSE <<"Peers of " \o h.loc.symbol \o ":">>) \o h.results)
  /\ [][/\ (h.pc # "batch" /\ h'.pc = "batch") =>
             fetchCount' - fetchCount = Cardinality({i \in DOMAIN h'.items : Fetching(i)'})
        /\ \A i \in DOMAIN h.items :
             (Fetching(i) /\ ~Fetching(i)') =>
               /\ \A j \in DOMAIN h.items \ {i} :
                    h'.results[j] = h.results[j] /\ h'.items[j] = h.items[j]
               /\ \/ /\ cache' = cache
                     /\ h'.results[i] = h.items[i].sym \o
                          (IF h.tool = "stock_quotes" THEN ": Error fetching" ELSE ": Error")
                  \/ /\ ItemKey(h.items[i].sym) \in DOMAIN cache'
                     /\ h'.results[i] =
                          ItemLine(h.tool, h.items[i].sym,
                                   Got(cache'[ItemKey(h.items[i].sym)].data))]_vars

(* C7 witness: of two requests in flight the second has failed first; its *)
(* placeholder is on line 2 and line 1 still waits for the first          *)
C7_Witness ==
  /\ h.pc = "batch" /\ h.tool = "stock_quotes" /\ Len(h.items) = 2
  /\ h.items[1].sym # h.items[2].sym
  /\ Fetching(1) /\ h.items[2].pc = "settled" /\ h.items[2].fin.thrown
  /\ h.results = <<Pending, "MSFT: Error fetching">>

(* The number of articles in the text of a news result: a heading, then *)
(* three lines for each article                                         *)
Rendered == (Len(h.result.text) - 1) \div 3

(* C10: the day count of stock_candles is in [1, 365], is 30 when days is   *)
(* absent, and is the one the request window is computed from; stock_news   *)
(* renders at most limit articles, limit in [1, 20] and 5 when it is absent *)
C10_NumericInputsClamped ==
  /\ (h.tool = "stock_candles" /\ h.pc # "idle") =>
       /\ h.loc.days \in 1..365
       /\ ~h.args.days.has => h.loc.days = 30
       /\ h.pc = "await" =>
            /\ h.params[4] = P("to", String(now \div 1000))
            /\ h.params[3] = P("from", String(now \div 1000 - h.loc.days * 86400))
  /\ (h.tool = "stock_news" /\ h.pc # "idle") =>
       /\ h.loc.limit \in 1..20
       /\ ~h.args.limit.has => h.loc.limit = 5
       /\ h.pc = "done" => (h.loc.shown <= h.loc.limit /\ Rendered <= h.loc.limit)

(* C10 witness: stock_news called with a limit above 20 on a feed of more *)
(* than 20 articles has rendered 20 of them                               *)
C10_Witness ==
  /\ h.pc = "done" /\ h.tool = "stock_news"
  /\ h.args.limit.has /\ h.args.limit.v > 20
  /\ ~h.result.isError /\ Rendered = 20 /\ h.loc.shown = 20

----------------------------------------------------------------------------
(* Properties of the cache key *)

(* C11: a call made with a second API key while the store holds a live entry *)
(* for its path and params makes no upstream request: every request in       *)
(* flight carries the first key                                              *)
C11_NoRequestWithSecondKey ==
  \A c \in Callers : InFlight(c) => call[c].apiKey = FirstKey

(* The clock second an instant lies in *)
ClockSecond(t) == t \div 1000

(* The cache key of a stock_candles call with arguments a that starts at t *)
CandleKey(a, t) ==
  LET rq == RequestOf("stock_candles", a, LocalsOf("stock_candles", a), t)
  IN cacheKey(rq.path, rq.params)

(* The instants up to now, in the second of now or in another one, at which *)
(* a call with arguments a started whose response the store holds unexpired *)
StoredFrom(a, same) ==
  {t \in Instants :
     /\ t <= now
     /\ (ClockSecond(t) = ClockSecond(now)) = same
     /\ CandleKey(a, t) \in DOMAIN cache
     /\ now <= cache[CandleKey(a, t)].expiry}

CandlesInvoked == Invoked /\ h'.tool = "stock_candles"

(* C12: the key of a stock_candles request holds the second in which the   *)
(* call started. A call is served from the store only from the response of *)
(* a call with the same arguments that started in the same second; with a  *)
(* live entry from another second only, it makes a new upstream request,   *)
(* and its response becomes a further entry beside that one                *)
C12_CandlesKeyedBySecond ==
  /\ [](h.pc = "await" /\ h.tool = "stock_candles" =>
          \E t \in Instants :
            /\ t <= now
            /\ h.params[4] = P("to", String(ClockSecond(t)))
            /\ cacheKey(h.path, h.params) = CandleKey(h.args, t)
            /\ \A u \in Instants :
                 ClockSecond(u) # ClockSecond(t) => CandleKey(h.args, u) # CandleKey(h.args, t))
  /\ [][CandlesInvoked =>
          /\ (h'.pc = "done" /\ fetchCount' = fetchCount) =>
               \E t \in StoredFrom(h'.args, TRUE) :
                 /\ CandleKey(h'.args, t) = CandleKey(h'.args, now)
                 /\ h'.result = TryCatch("stock_candles",
                                  Body("stock_candles", h'.args, h'.loc,
                                       cache[CandleKey(h'.args, t)].data))
          /\ (StoredFrom(h'.args, FALSE) # {} /\ StoredFrom(h'.args, TRUE) = {}) =>
               /\ h'.pc = "await"
               /\ fetchCount' = fetchCount + 1
               /\ cacheKey(h'.path, h'.params) \notin DOMAIN cache
               /\ cache' = cache]_vars
  /\ [][(h.pc = "await" /\ h.tool = "stock_candles" /\ h'.pc = "done" /\ cache' # cache) =>
          LET k == cacheKey(h.path, h.params)
          IN /\ DOMAIN cache' = DOMAIN cache \cup {k}
             /\ \A j \in DOMAIN cache \ {k} : cache'[j] = cache[j]
             /\ k \notin DOMAIN cache =>
                  Cardinality(DOMAIN cache') = Cardinality(DOMAIN cache) + 1
             /\ \A t \in Instants :
                  (/\ h.params[4] # P("to", String(ClockSecond(t)))
                   /\ CandleKey(h.args, t) \in DOMAIN cache) =>
                    /\ CandleKey(h.args, t) # k
                    /\ cache'[CandleKey(h.args, t)] = cache[CandleKey(h.args, t)]]_vars

(* C12 witness: a call at 0 s and a call with the same arguments at 15 s, *)
(* inside the TTL of the first, have both fetched; the store holds the    *)
(* two responses under two keys                                           *)
C12_Witness ==
  /\ h.pc = "done" /\ h.tool = "stock_candles" /\ ~h.result.isError
  /\ now = CACHE_TTL_MS /\ fetchCount = 2
  /\ DOMAIN cache = {CandleKey(h.args, 0), CandleKey(h.args, now)}
  /\ Cardinality(DOMAIN cache) = 2
  /\ \A k \in DOMAIN cache : now <= cache[k].expiry

----------------------------------------------------------------------------
(* Properties of eviction, checked under Spec *)

(* The step is deactivate() *)
Deactivates == deactivated' /\ cache' = EmptyCache /\ call' = call /\ last' = last

(* C13: an entry leaves the store only at deactivate() or at a lookup of its *)
(* own key made past its expiry; it changes only when a fetch for its own    *)
(* key succeeds; the clock passing its expiry, and lookups and stores of     *)
(* other keys, leave it as it is                                             *)
C13_LazyPerKeyEviction ==
  [][\A k \in DOMAIN cache :
       /\ k \notin DOMAIN cache' =>
            \/ Deactivates
            \/ /\ now > cache[k].expiry
               /\ \E c \in Callers : Misses(c) /\ KeyOf(c)' = k /\ call'[c].saw.expired
               /\ cache' = Remove(cache, k)
       /\ (k \in DOMAIN cache' /\ cache'[k] # cache[k]) =>
            \E c \in Callers :
              /\ SettlesOk(c) /\ KeyOf(c) = k
              /\ cache'[k] = [data |-> last'.ret, expiry |-> now + CACHE_TTL_MS]
       /\ (\/ now' # now
           \/ \E c \in Callers : Misses(c) /\ KeyOf(c)' # k
           \/ \E c \in Callers : InFlight(c) /\ ~InFlight(c)' /\ KeyOf(c) # k
           \/ (last' # last /\ call' = call)) =>
            (k \in DOMAIN cache' /\ cache'[k] = cache[k])]_vars

(* C13 witness: an entry past its expiry is still in the store after a call *)
(* for another key looked up, fetched and stored its own entry              *)
C13_Witness ==
  \E k \in DOMAIN cache :
    /\ now > cache[k].expiry
    /\ LastKey # k /\ last.fetched /\ ~last.threw
    /\ LastKey \in DOMAIN cache
    /\ cache[LastKey] = [data |-> last.ret, expiry |-> now + CACHE_TTL_MS]

====
